---- MODULE Spec2Model ----
(***************************************************************************)
(* Model of app/main.py: the POST /mcp tool endpoint of the execution      *)
(* checklist service and its generator generate_steps.                     *)
(*                                                                         *)
(* Texts are TLA+ strings; strip(), lower(), str() and the substring test  *)
(* `k in lower` are computed character by character.  A request text is    *)
(* built from a sequence of clauses (kept in the ghost variable segments)  *)
(* joined by ". ", optionally surrounded by whitespace.                    *)
(***************************************************************************)
EXTENDS Integers, Sequences, FiniteSets, TLC

VARIABLES
    pc,          \* "idle" | "received" | "responded": position of the exchange in flight
    request,     \* the MCPRequest in flight: [tool, input |-> [text, context, max_steps, audience]]
    segments,    \* ghost: the clauses the request text was composed of, in text order
    response,    \* the HTTP response to the request in flight
    ranGenerate, \* ghost: whether mcp called generate_steps for the request in flight
    ruleTable,   \* the module-global list KEYWORD_TEMPLATES as the process holds it
    memo         \* ghost: one remembered earlier (text, max_steps, steps) exchange

vars == <<pc, request, segments, response, ranGenerate, ruleTable, memo>>

---------------------------------------------------------------------------
(* Bounds of the model and constants of the program *)

\* longest request text, in clauses
MaxSegs == 4

\* longest request text, in clauses, that is also sent with whitespace around it
MaxPaddedSegs == 1

\* longest request text, in clauses, that is also sent with a wrong tool or audience
MaxRejectedSegs == 1

\* conint(ge=3, le=12)
MinSteps == 3
MaxSteps == 12

---------------------------------------------------------------------------
(* Python string primitives *)

CharAt(s, i) == SubSeq(s, i, i)

Whitespace == {" ", "\t", "\n", "\r", "\f"}

RECURSIVE lstrip(_)
lstrip(s) ==
    IF s = "" THEN ""
    ELSE IF CharAt(s, 1) \in Whitespace THEN lstrip(SubSeq(s, 2, Len(s)))
    ELSE s

RECURSIVE rstrip(_)
rstrip(s) ==
    IF s = "" THEN ""
    ELSE IF CharAt(s, Len(s)) \in Whitespace THEN rstrip(SubSeq(s, 1, Len(s) - 1))
    ELSE s

\* str.strip()
strip(s) == rstrip(lstrip(s))

UpperLetters == "ABCDEFGHIJKLMNOPQRSTUVWXYZ"
LowerLetters == "abcdefghijklmnopqrstuvwxyz"

\* the lower-case letter of each upper-case letter
LowerOf ==
    [c \in {CharAt(UpperLetters, i) : i \in 1..Len(UpperLetters)} |->
        CharAt(LowerLetters, CHOOSE i \in 1..Len(UpperLetters) : CharAt(UpperLetters, i) = c)]

LowerChar(c) == IF c \in DOMAIN LowerOf THEN LowerOf[c] ELSE c

\* str.lower(): every character mapped, the text split in halves
RECURSIVE lower(_)
lower(s) ==
    IF Len(s) <= 1 THEN LowerChar(s)
    ELSE LET h == Len(s) \div 2 IN
         lower(SubSeq(s, 1, h)) \o lower(SubSeq(s, h + 1, Len(s)))

\* the substring test `k in s`
Contains(s, k) ==
    \E i \in 1..(Len(s) - Len(k) + 1) : SubSeq(s, i, i + Len(k) - 1) = k

Digits == "0123456789"

\* str(n) for n >= 0
RECURSIVE str(_)
str(n) ==
    IF n < 10 THEN CharAt(Digits, n + 1)
    ELSE str(n \div 10) \o CharAt(Digits, (n % 10) + 1)

\* the slice xs[:n]
Take(xs, n) == SubSeq(xs, 1, IF Len(xs) < n THEN Len(xs) ELSE n)

---------------------------------------------------------------------------
(* Templates *)

StepTemplate(title, action, verify, artifacts) ==
    [title |-> title, action |-> action, verify |-> verify, artifacts |-> artifacts]

KEYWORD_TEMPLATES == <<
    [keywords |-> {"endpoint", "api"},
     template |-> StepTemplate(
        "Publish a stable endpoint",
        "Deploy and expose a stable HTTP endpoint, then record its URL and method.",
        "Call the endpoint and confirm a 200 response and correct payload shape.",
        <<"stable endpoint">>)],
    [keywords |-> {"error", "errors", "exception", "exceptions", "handle", "handling"},
     template |-> StepTemplate(
        "Complete error handling",
        "Add error handling for critical flows with explicit error responses.",
        "Trigger a failure path and confirm the response includes status and message.",
        <<>>)],
    [keywords |-> {"document", "docs", "documentation", "spec"},
     template |-> StepTemplate(
        "Update documentation",
        "Write or update documentation covering purpose, steps, and constraints.",
        "Check the documentation includes examples and limitation notes.",
        <<"documentation">>)],
    [keywords |-> {"description", "describe"},
     template |-> StepTemplate(
        "Draft requirement summary",
        "Summarize key requirements into a short description document.",
        "Confirm the summary covers scope, constraints, and key terms.",
        <<"description document">>)],
    [keywords |-> {"privacy", "policy"},
     template |-> StepTemplate(
        "Prepare Privacy Policy",
        "Create a Privacy Policy and publish it at a public URL.",
        "Open the URL and confirm it is accessible without login.",
        <<"privacy policy URL">>)],
    [keywords |-> {"terms", "tos"},
     template |-> StepTemplate(
        "Prepare Terms of Service",
        "Create Terms of Service and publish it at a public URL.",
        "Open the URL and confirm it is accessible without login.",
        <<"terms of service URL">>)]
>>

fallback_templates == <<
    StepTemplate(
        "Clarify execution scope",
        "Define the execution scope and key constraints in a checklist.",
        "Verify the scope list includes goals, boundaries, and key terms.",
        <<>>),
    StepTemplate(
        "Break down key tasks",
        "Split the work into executable tasks and order them.",
        "Confirm the task list has a clear sequence and owners.",
        <<>>),
    StepTemplate(
        "Review deliverables",
        "List expected deliverables and mark their storage locations.",
        "Check each deliverable item maps to an actual output.",
        <<>>),
    StepTemplate(
        "Run a quick validation",
        "Execute a small test run to validate the workflow end-to-end.",
        "Confirm outputs are produced and errors are handled clearly.",
        <<"test output">>),
    StepTemplate(
        "Prepare submission artifacts",
        "Prepare the demo recording, app description, and required URLs.",
        "Open each URL and verify it loads correctly without login.",
        <<"demo video URL">>)
>>

---------------------------------------------------------------------------
(* generate_steps *)

ChecklistStep(id, title, action, verify, artifacts) ==
    [id |-> id, title |-> title, action |-> action, verify |-> verify,
     artifacts |-> artifacts]

\* faulty variant: the id is taken before the step is counted
StepFrom_IdOffByOne(steps, template) ==
    ChecklistStep(str(Len(steps)), template.title, template.action,
                  template.verify, template.artifacts)

\* the step appended for `template` when `steps` are already collected
StepFrom(steps, template) ==
    ChecklistStep(str(Len(steps) + 1), template.title, template.action,
                  template.verify, template.artifacts)

\* faulty variant: every keyword of the rule is required
Matches_All(keywords, lowered) == \A k \in keywords : Contains(lowered, k)

\* any(k in lower for k in keywords)
Matches(keywords, lowered) == \E k \in keywords : Contains(lowered, k)

\* faulty variant: new steps are put in front of the list
Collect_Prepend(steps, template) == <<StepFrom(steps, template)>> \o steps

\* steps.append(ChecklistStep(...))
Collect(steps, template) == Append(steps, StepFrom(steps, template))

\* the keyword loop from rule i on; returned = the loop left through `return`
RECURSIVE KeywordLoopFrom(_, _, _, _, _, _)
KeywordLoopFrom(table, i, lowered, max_steps, steps, used) ==
    IF i > Len(table)
    THEN [steps |-> steps, used |-> used, returned |-> FALSE]
    ELSE LET hit    == Matches(table[i].keywords, lowered)
             used2  == IF hit THEN used \cup {table[i].template.title} ELSE used
             steps2 == IF hit THEN Collect(steps, table[i].template) ELSE steps
         IN  IF Len(steps2) >= max_steps
             THEN [steps |-> Take(steps2, max_steps), used |-> used2, returned |-> TRUE]
             ELSE KeywordLoopFrom(table, i + 1, lowered, max_steps, steps2, used2)

\* faulty variant: the loop leaves at the first rule that matches
RECURSIVE FirstMatchLoopFrom(_, _, _, _, _, _)
FirstMatchLoopFrom(table, i, lowered, max_steps, steps, used) ==
    IF i > Len(table)
    THEN [steps |-> steps, used |-> used, returned |-> FALSE]
    ELSE IF Matches(table[i].keywords, lowered)
         THEN [steps |-> Collect(steps, table[i].template),
               used |-> used \cup {table[i].template.title}, returned |-> FALSE]
         ELSE FirstMatchLoopFrom(table, i + 1, lowered, max_steps, steps, used)

KeywordLoop_FirstMatch(table, lowered, max_steps) ==
    FirstMatchLoopFrom(table, 1, lowered, max_steps, <<>>, {})

\* for keywords, template in KEYWORD_TEMPLATES: ...
KeywordLoop(table, lowered, max_steps) ==
    KeywordLoopFrom(table, 1, lowered, max_steps, <<>>, {})

\* the fallback loop from pool entry j on
RECURSIVE FallbackLoopFrom(_, _, _, _)
FallbackLoopFrom(j, steps, used, max_steps) ==
    IF j > Len(fallback_templates) THEN steps
    ELSE IF Len(steps) >= max_steps THEN steps
    ELSE IF fallback_templates[j].title \in used
         THEN FallbackLoopFrom(j + 1, steps, used, max_steps)
         ELSE FallbackLoopFrom(j + 1, Collect(steps, fallback_templates[j]),
                               used, max_steps)

\* faulty variant: the break test is inverted (`<=`), so the loop leaves on entry
FallbackLoop_BreakOnEntry(steps, used, max_steps) == steps

\* faulty variant: the loop stops at the minimum of three steps
FallbackLoop_StopAtMin(steps, used, max_steps) ==
    FallbackLoopFrom(1, steps, used, MinSteps)

\* faulty variant: the loop starts at the second pool entry
FallbackLoop_SkipFirst(steps, used, max_steps) ==
    FallbackLoopFrom(2, steps, used, max_steps)

\* for template in fallback_templates: ...
FallbackLoop(steps, used, max_steps) ==
    FallbackLoopFrom(1, steps, used, max_steps)

\* faulty variant: empty text gives no step at all
PlaceholderSteps_None == <<>>

\* the result for empty text
PlaceholderSteps == <<
    ChecklistStep("1", "Provide input text",
        "Add a non-empty 'text' field describing what checklist to generate.",
        "Confirm 'text' is not empty.", <<>>) >>

generate_steps(text, max_steps) ==
    LET t == strip(text) IN
    IF t = "" THEN PlaceholderSteps
    ELSE LET kw == KeywordLoop(ruleTable, lower(t), max_steps) IN
         IF kw.returned THEN kw.steps
         ELSE Take(FallbackLoop(kw.steps, kw.used, max_steps), max_steps)

---------------------------------------------------------------------------
(* POST /mcp *)

\* ChecklistOutput, sent with status 200
ChecklistOutput(context, steps, human_summary) ==
    [status |-> 200,
     body |-> [type |-> "checklist", audience |-> "agent", context |-> context,
               steps |-> steps, human_summary |-> human_summary]]

\* raise HTTPException(status_code=..., detail=...)
HTTPException(status_code, detail) == [status |-> status_code, detail |-> detail]

\* whether pydantic accepts the input: conint(ge=3, le=12)
ValidInput(input) == input.max_steps >= MinSteps /\ input.max_steps <= MaxSteps

\* faulty variant: the audience is not looked at
mcpResponse_NoAudienceCheck(req) ==
    IF ~ValidInput(req.input)
    THEN [resp |-> HTTPException(422, "validation error"), ran |-> FALSE]
    ELSE IF req.tool # "generate_checklist"
    THEN [resp |-> HTTPException(400, "Unknown tool"), ran |-> FALSE]
    ELSE LET steps == generate_steps(req.input.text, req.input.max_steps) IN
         [resp |-> ChecklistOutput(req.input.context, steps,
                       "Generated " \o str(Len(steps)) \o " checklist steps."),
          ran |-> TRUE]

\* the response of mcp to a request, and whether generate_steps ran for it
mcpResponse(req) ==
    IF ~ValidInput(req.input)
    THEN [resp |-> HTTPException(422, "validation error"), ran |-> FALSE]
    ELSE IF req.tool # "generate_checklist"
    THEN [resp |-> HTTPException(400, "Unknown tool"), ran |-> FALSE]
    ELSE IF req.input.audience # "agent"
    THEN [resp |-> HTTPException(400, "Audience must be 'agent'"), ran |-> FALSE]
    ELSE LET steps == generate_steps(req.input.text, req.input.max_steps) IN
         [resp |-> ChecklistOutput(req.input.context, steps,
                       "Generated " \o str(Len(steps)) \o " checklist steps."),
          ran |-> TRUE]

---------------------------------------------------------------------------
(* Inputs *)

\* the clauses request texts are built of
Clauses == {"Deploy the API endpoint", "Write documentation",
            "Describe policy error terms", "hello world"}

SegSeqs == UNION {[1..n -> Clauses] : n \in 0..MaxSegs}

\* the clauses, each closed by a full stop, separated by one space
RECURSIVE JoinSegs(_)
JoinSegs(s) ==
    IF Len(s) = 0 THEN ""
    ELSE IF Len(s) = 1 THEN s[1] \o "."
    ELSE s[1] \o ". " \o JoinSegs(Tail(s))

\* whitespace put around a text
Pads == {"", " \n"}
PadsFor(s) == IF Len(s) <= MaxPaddedSegs THEN Pads ELSE {""}

Tools == {"generate_checklist", "summarize"}
ToolsFor(s) == IF Len(s) <= MaxRejectedSegs THEN Tools ELSE {"generate_checklist"}

Audiences == {"agent", "human"}
AudiencesFor(s) == IF Len(s) <= MaxRejectedSegs THEN Audiences ELSE {"agent"}

StepChoices == (MinSteps - 1)..(MaxSteps + 1)

\* texts of the repeated-request specification
ProbeTexts == {"Deploy the API endpoint. Write documentation.", "hello world", "  "}

NoRequest == [tool |-> "", input |-> [text |-> "", context |-> "", max_steps |-> 0, audience |-> ""]]
NoResponse == [status |-> 0]
NoMemo == [text |-> "", max_steps |-> 0, steps |-> <<>>]

MCPRequest(tool, text, max_steps, audience) ==
    [tool |-> tool,
     input |-> [text |-> text, context |-> "release", max_steps |-> max_steps,
                audience |-> audience]]

---------------------------------------------------------------------------
(* Actions *)

Init ==
    /\ pc = "idle"
    /\ request = NoRequest
    /\ segments = <<>>
    /\ response = NoResponse
    /\ ranGenerate = FALSE
    /\ ruleTable = KEYWORD_TEMPLATES
    /\ memo = NoMemo

\* a client posts a request to /mcp
Post ==
    /\ pc = "idle"
    /\ \E s \in SegSeqs, m \in StepChoices :
          \E pad \in PadsFor(s), tool \in ToolsFor(s), a \in AudiencesFor(s) :
              /\ request' = MCPRequest(tool, pad \o JoinSegs(s) \o pad, m, a)
              /\ segments' = s
    /\ pc' = "received"
    /\ response' = NoResponse
    /\ ranGenerate' = FALSE
    /\ UNCHANGED <<ruleTable, memo>>

\* faulty variant: the handler removes the first rule of the table once it has matched
mcp_ConsumesRule ==
    /\ pc = "received"
    /\ LET r == mcpResponse(request) IN
          /\ response' = r.resp
          /\ ranGenerate' = r.ran
          /\ ruleTable' = IF /\ r.ran
                             /\ Len(ruleTable) > 0
                             /\ Matches(ruleTable[1].keywords, lower(strip(request.input.text)))
                          THEN Tail(ruleTable) ELSE ruleTable
    /\ pc' = "responded"
    /\ UNCHANGED <<request, segments, memo>>

\* the server handles the request in flight
mcp ==
    /\ pc = "received"
    /\ LET r == mcpResponse(request) IN
          /\ response' = r.resp
          /\ ranGenerate' = r.ran
    /\ pc' = "responded"
    /\ UNCHANGED <<request, segments, ruleTable, memo>>

\* the response is delivered and the exchange ends; the process lives on
Deliver ==
    /\ pc = "responded"
    /\ pc' = "idle"
    /\ request' = NoRequest
    /\ segments' = <<>>
    /\ response' = NoResponse
    /\ ranGenerate' = FALSE
    /\ UNCHANGED <<ruleTable, memo>>

Next == Post \/ mcp \/ Deliver

Spec == Init /\ [][Next]_vars

\* a client posts one of the probe texts with valid tool and audience
PostProbe ==
    /\ pc = "idle"
    /\ \E text \in ProbeTexts, m \in MinSteps..MaxSteps :
          request' = MCPRequest("generate_checklist", text, m, "agent")
    /\ segments' = <<>>
    /\ pc' = "received"
    /\ response' = NoResponse
    /\ ranGenerate' = FALSE
    /\ UNCHANGED <<ruleTable, memo>>

\* the response is delivered and an observer keeps the exchange, once
Remember ==
    /\ pc = "responded"
    /\ memo = NoMemo
    /\ response.status = 200
    /\ memo' = [text |-> request.input.text, max_steps |-> request.input.max_steps,
                steps |-> response.body.steps]
    /\ pc' = "idle"
    /\ request' = NoRequest
    /\ segments' = <<>>
    /\ response' = NoResponse
    /\ ranGenerate' = FALSE
    /\ UNCHANGED ruleTable

NextRepeat == PostProbe \/ mcp \/ Remember \/ Deliver

SpecRepeat == Init /\ [][NextRepeat]_vars

---------------------------------------------------------------------------
(* Vocabulary of the properties *)

Responded == pc = "responded"
\* the request in flight passes validation: tool, audience and max_steps
ValidRequest ==
    /\ request.tool = "generate_checklist"
    /\ request.input.audience = "agent"
    /\ request.input.max_steps \in MinSteps..MaxSteps
\* a validation-passing request has been answered with a result
Ok == pc = "responded" /\ ValidRequest /\ response.status = 200
\* a validation-passing request has been answered
Accepted == pc = "responded" /\ ValidRequest
ReqText == request.input.text
ReqMax == request.input.max_steps
EmptyText == \A i \in 1..Len(ReqText) : CharAt(ReqText, i) \in Whitespace
Steps == response.body.steps

Min(a, b) == IF a < b THEN a ELSE b

RuleIndices == 1..Len(KEYWORD_TEMPLATES)
RuleTitle(i) == KEYWORD_TEMPLATES[i].template.title
FallbackTitles == {fallback_templates[j].title : j \in 1..Len(fallback_templates)}
PoolSize == Len(fallback_templates)

\* rule i has a keyword that occurs in the text, letter case ignored
RuleHits(i, text) ==
    LET folded == lower(text) IN
    \E k \in KEYWORD_TEMPLATES[i].keywords :
        \E p \in 1..(Len(folded) - Len(k) + 1) : SubSeq(folded, p, p + Len(k) - 1) = k

\* the rules hit by a text
MatchedRules(text) == {i \in RuleIndices : RuleHits(i, text)}

\* the r-th smallest element of a set of rule indices
Nth(S, r) == CHOOSE i \in S : Cardinality({j \in S : j <= i}) = r

\* the templates of the rules of S in Rule Table order
TemplatesOf(S) == [r \in 1..Cardinality(S) |-> KEYWORD_TEMPLATES[Nth(S, r)].template]

SameTemplate(step, template) ==
    /\ step.title = template.title
    /\ step.action = template.action
    /\ step.verify = template.verify
    /\ step.artifacts = template.artifacts

HasTitle(steps, title) == \E i \in 1..Len(steps) : steps[i].title = title

\* the first rule in table order that a segment hits (first-match-wins)
FirstRule(seg) == Nth(MatchedRules(seg), 1)

\* the segments of the request text that hit some rule, in text order
MatchingSegments == SelectSeq(segments, LAMBDA c : MatchedRules(c) # {})

\* the decimal numerals of 1..12
Numerals == <<"1", "2", "3", "4", "5", "6", "7", "8", "9", "10", "11", "12">>

ScenarioA == "Deploy the API endpoint. Write documentation."

---------------------------------------------------------------------------
(* C1 *)

\* C1: every request that passes validation and has non-empty text gets
\* between 3 and max_steps steps, whatever rules the text matches.
C1_StepCountWithinBounds ==
    (Accepted /\ ~EmptyText) =>
        /\ response.status = 200
        /\ MinSteps <= Len(Steps)
        /\ Len(Steps) <= ReqMax

\* a text that hits every rule, answered with the smallest max_steps
C1_Witness ==
    /\ Ok /\ ~EmptyText
    /\ MatchedRules(ReqText) = RuleIndices
    /\ ReqMax = MinSteps
    /\ Len(Steps) = MinSteps

(* C2 *)

\* C2: in every result of generate_steps the ids are the numerals "1".."N"
\* in array order, also after filling from the pool or cutting to max_steps.
C2_IdsAreOneToN ==
    (Responded /\ ranGenerate) =>
        \A i \in 1..Len(Steps) : Steps[i].id = Numerals[i]

\* a result of two digits' length holding rule steps and fallback steps
C2_Witness ==
    /\ Ok
    /\ Len(Steps) = 11
    /\ Steps[11].id = "11"
    /\ Steps[11].title \in FallbackTitles
    /\ Steps[1].title \notin FallbackTitles

(* C3 *)

\* C3 as stated: empty or whitespace-only text gives a failure state, a
\* reason and no steps.
C3_AsStated ==
    (Accepted /\ EmptyText) =>
        /\ response.body.steps = <<>>
        /\ "meta" \in DOMAIN response.body
        /\ response.body.meta.state = "failure"

\* C3 amended: empty or whitespace-only text gives an ordinary result with
\* exactly one placeholder step, id "1", asking for a non-empty text, and
\* no failure state or reason.
C3_PlaceholderStep ==
    (Accepted /\ EmptyText) =>
        /\ response.status = 200
        /\ DOMAIN response.body = {"type", "audience", "context", "steps", "human_summary"}
        /\ Len(response.body.steps) = 1
        /\ response.body.steps[1].id = "1"
        /\ response.body.steps[1].title = "Provide input text"
        /\ response.body.steps[1].verify = "Confirm 'text' is not empty."
        /\ response.body.steps[1].artifacts = <<>>
        /\ response.body.human_summary = "Generated 1 checklist steps."

\* a whitespace-only text answered
C3_Witness ==
    /\ Accepted /\ EmptyText
    /\ ReqText # ""
    /\ Len(response.body.steps) = 1

(* C4 *)

BadToolOrAudience ==
    /\ Responded
    /\ ValidInput(request.input)
    /\ (request.tool # "generate_checklist" \/ request.input.audience # "agent")

\* C4 as stated: a wrong tool name or audience is answered with a result of
\* the success shape (no steps, failure state, reason), not a transport
\* error, and generate_steps does not run.
C4_AsStated ==
    BadToolOrAudience =>
        /\ response.status = 200
        /\ response.body.steps = <<>>
        /\ "meta" \in DOMAIN response.body
        /\ response.body.meta.state = "failure"
        /\ response.body.meta.reason \in {"unknown_tool", "invalid_audience"}
        /\ ~ranGenerate

\* C4 amended: a wrong tool name or audience (max_steps in 3..12) is answered with an HTTP 400
\* error that carries a detail text and no result body, and generate_steps
\* does not run.
C4_TransportError ==
    BadToolOrAudience =>
        /\ response.status = 400
        /\ DOMAIN response = {"status", "detail"}
        /\ response.detail = IF request.tool # "generate_checklist"
                             THEN "Unknown tool" ELSE "Audience must be 'agent'"
        /\ ~ranGenerate

\* the right tool called for another audience
C4_Witness ==
    /\ BadToolOrAudience
    /\ request.tool = "generate_checklist"
    /\ response.status = 400

(* C5 *)

\* C5 as stated (first-match-wins): a rule's template is emitted only for a
\* segment whose first matching rule it is.
C5_AsStated ==
    (Accepted /\ ~EmptyText) =>
        \A j \in RuleIndices :
            HasTitle(Steps, RuleTitle(j)) =>
                \E s \in 1..Len(segments) :
                    MatchedRules(segments[s]) # {} /\ FirstRule(segments[s]) = j

\* C5 amended: when a segment contains keywords of two rules, both rules
\* give a step, the earlier rule's before the later rule's, as long as the
\* later rule is among the first max_steps rules the whole text hits;
\* otherwise the later rule's template is cut.
C5_AllMatchesInTableOrder ==
    (Accepted /\ ~EmptyText) =>
        LET K == MatchedRules(ReqText) IN
        \A s \in 1..Len(segments) :
            \A i, j \in MatchedRules(segments[s]) :
                i < j =>
                    IF Cardinality({r \in K : r <= j}) <= ReqMax
                    THEN \E a, b \in 1..Len(Steps) :
                            /\ a < b
                            /\ Steps[a].title = RuleTitle(i)
                            /\ Steps[b].title = RuleTitle(j)
                    ELSE ~HasTitle(Steps, RuleTitle(j))

\* a one-segment text that hits several rules, each of them answered
C5_Witness ==
    /\ Ok /\ ~EmptyText
    /\ Len(segments) = 1
    /\ Cardinality(MatchedRules(segments[1])) = 4
    /\ \A j \in MatchedRules(segments[1]) : HasTitle(Steps, RuleTitle(j))

(* C6 *)

\* C6 as stated: with 0 < m < 3 matched templates the result has exactly 3
\* steps, for every max_steps.
C6_AsStated ==
    (Accepted /\ ~EmptyText) =>
        LET m == Cardinality(MatchedRules(ReqText)) IN
        (0 < m /\ m < MinSteps) => Len(Steps) = MinSteps

\* C6 amended: with 0 < m < 3 matched templates the result has
\* min(max_steps, m + pool size) steps: the m matched templates, then the
\* pool entries in catalog order from the first; the text of Scenario A
\* with max_steps = 5 gives 5 steps.
C6_PaddingFillsToMax ==
    (Accepted /\ ~EmptyText) =>
        LET K == MatchedRules(ReqText)
            m == Cardinality(K)
        IN  (0 < m /\ m < MinSteps) =>
                /\ Len(Steps) = Min(ReqMax, m + PoolSize)
                /\ \A i \in 1..Len(Steps) :
                      IF i <= m THEN SameTemplate(Steps[i], TemplatesOf(K)[i])
                      ELSE SameTemplate(Steps[i], fallback_templates[i - m])
                /\ (ReqText = ScenarioA /\ ReqMax = 5) =>
                      [i \in 1..Len(Steps) |-> Steps[i].id] = <<"1", "2", "3", "4", "5">>

\* Scenario A
C6_Witness ==
    /\ Ok
    /\ ReqText = ScenarioA
    /\ ReqMax = 5
    /\ Len(Steps) = 5
    /\ Steps[3].title = "Clarify execution scope"

(* C7 *)

\* C7 as stated: with more matching segments than max_steps, the result has
\* max_steps steps and step i is the template selected by the i-th matching
\* segment in text order.
C7_AsStated ==
    (Accepted /\ ~EmptyText /\ Len(MatchingSegments) > ReqMax) =>
        LET selected == [i \in 1..Len(MatchingSegments) |->
                            KEYWORD_TEMPLATES[FirstRule(MatchingSegments[i])].template]
        IN  /\ Len(Steps) = ReqMax
            /\ \A i \in 1..ReqMax : SameTemplate(Steps[i], selected[i])

\* C7 amended: with more matching segments than max_steps, the result has
\* min(max_steps, |K| + pool size) steps and its rule steps are the first
\* max_steps rules of K in Rule Table order, one step per rule, K being the
\* rules the whole text hits.
C7_TruncationKeepsTableOrder ==
    (Accepted /\ ~EmptyText /\ Len(MatchingSegments) > ReqMax) =>
        LET K == MatchedRules(ReqText)
            n == Min(ReqMax, Cardinality(K))
        IN  /\ Len(Steps) = Min(ReqMax, Cardinality(K) + PoolSize)
            /\ \A i \in 1..n : Steps[i].title = RuleTitle(Nth(K, i))
            /\ \A i \in (n + 1)..Len(Steps) : Steps[i].title \in FallbackTitles

\* four matching segments for three steps, the first of them not selecting
\* the first step's rule
C7_Witness ==
    /\ Ok /\ ~EmptyText
    /\ Len(MatchingSegments) > ReqMax
    /\ Steps[1].title # RuleTitle(FirstRule(MatchingSegments[1]))

(* C8 *)

\* C8: a non-empty text that hits no rule gets pool steps only, in catalog
\* order from the first entry, min(max_steps, pool size) of them, which is
\* between 3 and max_steps.
C8_FallbackOnly ==
    (Accepted /\ ~EmptyText /\ MatchedRules(ReqText) = {}) =>
        /\ Len(Steps) = Min(ReqMax, PoolSize)
        /\ \A i \in 1..Len(Steps) : SameTemplate(Steps[i], fallback_templates[i])
        /\ MinSteps <= Len(Steps) /\ Len(Steps) <= ReqMax

\* Scenario D
C8_Witness ==
    /\ Ok
    /\ strip(ReqText) = "hello world."
    /\ ReqMax = 6
    /\ Len(Steps) = PoolSize

(* C9 *)

\* C9: after any sequence of earlier requests, a request with the text and
\* max_steps of a remembered one gets the remembered steps, and the Rule
\* Table is as it was built.
C9_SameInputSameSteps ==
    /\ ruleTable = KEYWORD_TEMPLATES
    /\ (Accepted /\ memo # NoMemo /\ memo.text = ReqText /\ memo.max_steps = ReqMax) =>
          Steps = memo.steps

\* a request repeated after the remembered one was delivered
C9_Witness ==
    /\ Ok /\ memo # NoMemo
    /\ memo.text = ReqText /\ memo.max_steps = ReqMax
    /\ ReqText = ScenarioA
    /\ Len(Steps) > 2

(* C10 *)

\* C10: for non-empty text the result is the templates of K in Rule Table
\* order, then the pool in catalog order, cut to max_steps; its length is
\* min(max_steps, |K| + pool size), no title occurs twice, and no pool step
\* appears when |K| >= max_steps.
C10_ExactShape ==
    (Accepted /\ ~EmptyText) =>
        LET K        == MatchedRules(ReqText)
            expected == Take(TemplatesOf(K) \o fallback_templates, ReqMax)
        IN  /\ Len(Steps) = Len(expected)
            /\ \A i \in 1..Len(Steps) : SameTemplate(Steps[i], expected[i])
            /\ Len(Steps) = Min(ReqMax, Cardinality(K) + PoolSize)
            /\ \A a, b \in 1..Len(Steps) : Steps[a].title = Steps[b].title => a = b
            /\ Cardinality(K) >= ReqMax =>
                  \A i \in 1..Len(Steps) : Steps[i].title \notin FallbackTitles

\* more rules hit than steps allowed: rule steps only
C10_Witness ==
    /\ Ok /\ ~EmptyText
    /\ Cardinality(MatchedRules(ReqText)) > ReqMax
    /\ Len(Steps) = ReqMax
    /\ Steps[ReqMax].title = RuleTitle(ReqMax)

====
